---- MODULE Spec2Model ----
(***************************************************************************)
(* Model of export.py: the QueryGenerator builder (constructor, the four   *)
(* configuration methods, generate) and the export workflow that drives it *)
(* (query_generator, export_csv, the __main__ block).                      *)
(*                                                                         *)
(* Conventions.                                                            *)
(*  - A Python str is a sequence of symbols; a symbol is a TLA+ string.    *)
(*    The double quote is always a symbol of its own (Q), so that text     *)
(*    interpolated between quotes can be told apart from the quotes.       *)
(*  - A datetime / timedelta is an integer number of seconds.              *)
(*  - A Python value whose type matters carries a "type" field.            *)
(***************************************************************************)
EXTENDS Integers, Sequences, FiniteSets, TLC

VARIABLES
    g,              \* the QueryGenerator instance (NoInstance before construction)
    lastCall,       \* the last method call: op, arg, exception raised, return value
    calls,          \* number of method calls made on g
    repeated,       \* lastCall repeats the call before it (same op, same arg, both returned)
    lastWindowOk,   \* argument of the last set_window_period that returned ("none" if none)
    lastAggOk,      \* argument of the last set_aggregation_type that returned ("none" if none)
    clock,          \* the wall clock, in seconds
    pc,             \* position of the export workflow
    cfg,            \* values read from config.ini
    completed,      \* builder methods that returned during this export run, in order
    raised,         \* calls that raised during this export run, in order
    executorCalled, \* query_api.query_csv was called
    fileOpened,     \* the CSV file was opened for writing
    rowsWritten,    \* rows written to the CSV file
    log             \* records written to export.log

vars == <<g, lastCall, calls, repeated, lastWindowOk, lastAggOk, clock,
          pc, cfg, completed, raised, executorCalled, fileOpened, rowsWritten, log>>

harnessVars == <<g, lastCall, calls, repeated, lastWindowOk, lastAggOk, clock>>
exportVars == <<pc, cfg, completed, raised, executorCalled, fileOpened, rowsWritten, log>>

-----------------------------------------------------------------------------
(* Bounds of the model *)

MaxCalls == 2       \* method calls made on one instance
MaxConds == 2       \* conditions in one add_filter_conditions call
MaxClock == 1       \* the clock is read at 0..MaxClock seconds
MaxRows == 1        \* rows the executor returns

-----------------------------------------------------------------------------
(* Python values and helpers *)

SecondsPerDay == 86400
SecondsPerHour == 3600
DefaultDays == 30

Q == "\""

Digits == {"0", "1", "2", "3", "4", "5", "6", "7", "8", "9"}

DigitVal == ("0" :> 0) @@ ("1" :> 1) @@ ("2" :> 2) @@ ("3" :> 3) @@ ("4" :> 4) @@
            ("5" :> 5) @@ ("6" :> 6) @@ ("7" :> 7) @@ ("8" :> 8) @@ ("9" :> 9)

\* str.isdigit(): non-empty and every character a digit
isdigit(s) == Len(s) > 0 /\ \A i \in 1..Len(s) : s[i] \in Digits

\* the value of a string of digits
RECURSIVE DigitsToNat(_)
DigitsToNat(s) ==
    IF s = <<>> THEN 0
    ELSE DigitsToNat(SubSeq(s, 1, Len(s) - 1)) * 10 + DigitVal[s[Len(s)]]

PyInt(n) == [type |-> "int", v |-> n]
PyStr(s) == [type |-> "str", s |-> s]

\* int(x): an int is itself; a str is an optional sign followed by digits,
\* anything else raises ValueError (surrounding blanks and underscores, which
\* int() also accepts, are not among the inputs)
int(x) ==
    IF x.type = "int" THEN [err |-> "none", v |-> x.v]
    ELSE IF isdigit(x.s) THEN [err |-> "none", v |-> DigitsToNat(x.s)]
    ELSE IF Len(x.s) > 1 /\ x.s[1] \in {"-", "+"} /\ isdigit(Tail(x.s))
         THEN [err |-> "none",
               v |-> IF x.s[1] = "-" THEN 0 - DigitsToNat(Tail(x.s)) ELSE DigitsToNat(Tail(x.s))]
    ELSE [err |-> "ValueError", v |-> 0]

\* timedelta(days=, hours=) and timedelta(seconds=), in seconds
timedelta(days, hours) == days * SecondsPerDay + hours * SecondsPerHour

\* a datetime: naive local time (datetime.now()) or aware UTC (datetime.now(timezone.utc))
DateTime(tz, t) == [type |-> "datetime", tz |-> tz, t |-> t]
\* datetime.isoformat(): a str holding the same instant
isoformat(dt) == [type |-> "str", iso |-> dt.t, tz |-> dt.tz]
Duration(secs) == [type |-> "timedelta", seconds |-> secs]

-----------------------------------------------------------------------------
(* class QueryGenerator *)

NoInstance == [constructed |-> FALSE]

ALLOWED_OPERATORS == {"==", "!=", "<", ">", "<=", ">="}

\* the literal text of self.query around its two placeholders
QueryHead ==
    "\n                from(bucket: stringParam)\n                    |> range(start: timeRangeStart, stop: timeRangeStop)\n                    "
QuerySep == "\n                     "
QueryTail == "\n                    "

FilterOpen == "|> filter(fn: (r) => r["
FilterMid == "] "
FilterEnd == ")\n"

AggregateWindow ==
    << "|> aggregateWindow(every: windowPeriod, fn: mean, createEmpty: false)\n|> yield(name: ",
       Q, "mean", Q, ")" >>

\* QueryGenerator.__init__: now1, now2 are the two datetime.now() reads
QueryGenerator(bucket, now1, now2) ==
    [ constructed |-> TRUE,
      params |-> [ stringParam |-> bucket,
                   timeRangeStart |->
                       isoformat(DateTime("naive", now1 - timedelta(DefaultDays, 0))),
                   timeRangeStop |-> isoformat(DateTime("naive", now2)),
                   windowPeriod |-> PyStr(<<"1", "d">>) ],
      filter_conditions |-> <<>>,
      aggregation_type |-> "windowed" ]

\* the f-string appended for one condition
FilterClause(field, operator, value) ==
    <<FilterOpen, Q>> \o field \o <<Q, FilterMid, operator, " ", Q>> \o value \o <<Q, FilterEnd>>

\* the exception the checks of the loop body raise for one condition
ConditionError(condition) ==
    IF condition.type # "dict" THEN "ValueError"
    ELSE IF ~({"field", "operator", "value"} \subseteq DOMAIN condition.d) THEN "ValueError"
    ELSE IF condition.d.operator \notin ALLOWED_OPERATORS THEN "ValueError"
    ELSE "none"

\* the for loop of add_filter_conditions from condition i on
RECURSIVE FilterLoop(_, _, _)
FilterLoop(filter_conditions, conditions, i) ==
    IF i > Len(conditions) THEN [fc |-> filter_conditions, err |-> "none"]
    ELSE IF ConditionError(conditions[i]) # "none"
         THEN [fc |-> filter_conditions, err |-> ConditionError(conditions[i])]
    ELSE FilterLoop(filter_conditions \o FilterClause(conditions[i].d.field,
                                                      conditions[i].d.operator,
                                                      conditions[i].d.value),
                    conditions, i + 1)

\* a single dict is wrapped in a list
AsList(conditions) ==
    IF conditions.type = "dict" THEN <<conditions>> ELSE conditions.items

\* variant: every condition is checked before any clause is appended
add_filter_conditions_atomic(self, conditions) ==
    LET r == FilterLoop(self.filter_conditions, AsList(conditions), 1)
    IN  [g |-> IF r.err = "none" THEN [self EXCEPT !.filter_conditions = r.fc] ELSE self,
         err |-> r.err]

\* variant: the clauses are assigned (=) rather than appended (+=)
add_filter_conditions_assign(self, conditions) ==
    LET r == FilterLoop(<<>>, AsList(conditions), 1)
    IN  [g |-> [self EXCEPT !.filter_conditions = r.fc], err |-> r.err]

add_filter_conditions(self, conditions) ==
    LET r == FilterLoop(self.filter_conditions, AsList(conditions), 1)
    IN  [g |-> [self EXCEPT !.filter_conditions = r.fc], err |-> r.err]

\* variant: the range is stored before the sign check
set_time_range_late_check(self, days, hours, now1, now2) ==
    IF int(days).err # "none" THEN [g |-> self, err |-> int(days).err]
    ELSE IF int(hours).err # "none" THEN [g |-> self, err |-> int(hours).err]
    ELSE [g |-> [self EXCEPT
                   !.params.timeRangeStart =
                       DateTime("utc", now1 - timedelta(int(days).v, int(hours).v)),
                   !.params.timeRangeStop = DateTime("utc", now2)],
          err |-> IF int(days).v < 0 \/ int(hours).v < 0 THEN "ValueError" ELSE "none"]

\* now1, now2 are the two datetime.now(timezone.utc) reads
set_time_range(self, days, hours, now1, now2) ==
    IF int(days).err # "none" THEN [g |-> self, err |-> int(days).err]
    ELSE IF int(hours).err # "none" THEN [g |-> self, err |-> int(hours).err]
    ELSE IF int(days).v < 0 \/ int(hours).v < 0 THEN [g |-> self, err |-> "ValueError"]
    ELSE [g |-> [self EXCEPT
                   !.params.timeRangeStart =
                       DateTime("utc", now1 - timedelta(int(days).v, int(hours).v)),
                   !.params.timeRangeStop = DateTime("utc", now2)],
          err |-> "none"]

time_dict == ("s" :> 1) @@ ("m" :> 60) @@ ("h" :> 3600) @@ ("d" :> 86400)

set_window_period(self, window_period) ==
    IF Len(window_period) = 0 THEN [g |-> self, err |-> "IndexError"]
    ELSE IF window_period[Len(window_period)] \notin {"s", "m", "h", "d"}
         THEN [g |-> self, err |-> "ValueError"]
    ELSE IF ~isdigit(SubSeq(window_period, 1, Len(window_period) - 1))
         THEN [g |-> self, err |-> "ValueError"]
    ELSE [g |-> [self EXCEPT !.params.windowPeriod =
                    Duration(DigitsToNat(SubSeq(window_period, 1, Len(window_period) - 1))
                             * time_dict[window_period[Len(window_period)]])],
          err |-> "none"]

set_aggregation_type(self, aggregation_type) ==
    IF aggregation_type \notin {"raw", "windowed"} THEN [g |-> self, err |-> "ValueError"]
    ELSE [g |-> [self EXCEPT !.aggregation_type = aggregation_type], err |-> "none"]

\* variant: the mode is not consulted
Aggregation_ignores_mode(self) == AggregateWindow

\* the aggregation text generate() chooses
Aggregation(self) ==
    IF self.aggregation_type = "windowed" THEN AggregateWindow ELSE <<>>

\* self.query.format(filter_conditions=..., aggregation=...)
QueryFormat(filter_conditions, aggregation) ==
    <<QueryHead>> \o filter_conditions \o <<QuerySep>> \o aggregation \o <<QueryTail>>

\* variant: rendering consumes the accumulated filter clauses
generate_consuming(self) ==
    [ g |-> [self EXCEPT !.filter_conditions = <<>>],
      err |-> "none",
      ret |-> [query |-> QueryFormat(self.filter_conditions, Aggregation(self)),
               params |-> self.params] ]

generate(self) ==
    [ g |-> self,
      err |-> "none",
      ret |-> [query |-> QueryFormat(self.filter_conditions, Aggregation(self)),
               params |-> self.params] ]

-----------------------------------------------------------------------------
(* Inputs *)

Bucket == <<"metrics">>

\* two successive reads of a clock that stands at c: it may advance before each
\* (one second of the model stands for any advance of the clock, however small)
NowPairs(c) == { now \in (c..MaxClock) \X (c..MaxClock) : now[1] <= now[2] }

IntInputs == { PyInt(0 - 1), PyInt(1), PyStr(<<"0">>) }

WindowInputs ==
    { <<>>, <<"s">>, <<"0", "s">>, <<"3", "0", "s">>, <<"5", "m">>, <<"2", "h">>, <<"1", "d">>,
      <<"1", "0", "x">>, <<"a", "b", "c">>, <<"-", "5", "s">> }

AggregationInputs == { "raw", "windowed", "mean" }

Dict(d) == [type |-> "dict", d |-> d]
List(items) == [type |-> "list", items |-> items]

HostCondition == Dict([field |-> <<"host">>, operator |-> "==", value |-> <<"server1">>])
\* a value that holds a double quote followed by the text of a filter clause
QuotedValue == <<"x", Q, FilterEnd, FilterOpen, Q, "a", Q, FilterMid, "!=", " ", Q, "y">>
QuotedCondition == Dict([field |-> <<"cpu">>, operator |-> ">", value |-> QuotedValue])
NotADict == [type |-> "str", d |-> [repr |-> "host"]]
MissingValue == Dict([field |-> <<"host">>, operator |-> "=="])
BadOperator == Dict([field |-> <<"host">>, operator |-> "=~", value |-> <<"server1">>])

ValidConditions == { HostCondition, QuotedCondition }
ConditionPool == ValidConditions \cup { NotADict, MissingValue, BadOperator }

SeqsUpTo(S, n) == UNION { [1..k -> S] : k \in 0..n }

ConditionInputs == { HostCondition } \cup { List(cs) : cs \in SeqsUpTo(ConditionPool, MaxConds) }

-----------------------------------------------------------------------------
(* The builder under any sequence of method calls *)

NoConfig == [loaded |-> FALSE]

Init ==
    /\ \E now \in NowPairs(0) :
          /\ g = QueryGenerator(Bucket, now[1], now[2])
          /\ clock = now[2]
    /\ lastCall = [op |-> "__init__", arg |-> Bucket, err |-> "none", ret |-> "None"]
    /\ calls = 0
    /\ repeated = FALSE
    /\ lastWindowOk = "none"
    /\ lastAggOk = "none"
    /\ pc = "idle"
    /\ cfg = NoConfig
    /\ completed = <<>>
    /\ raised = <<>>
    /\ executorCalled = FALSE
    /\ fileOpened = FALSE
    /\ rowsWritten = 0
    /\ log = <<>>

\* the bookkeeping common to every method call: r is what the method did
Called(op, arg, r, ret) ==
    /\ g' = r.g
    /\ repeated' = ( /\ lastCall.op = op
                     /\ lastCall.err = "none"
                     /\ r.err = "none"
                     /\ lastCall.arg = arg )
    /\ lastCall' = [op |-> op, arg |-> arg, err |-> r.err, ret |-> ret]
    /\ calls' = calls + 1

CallAddFilterConditions ==
    /\ pc = "idle" /\ calls < MaxCalls
    /\ \E conditions \in ConditionInputs :
          Called("add_filter_conditions", conditions, add_filter_conditions(g, conditions), "None")
    /\ UNCHANGED <<lastWindowOk, lastAggOk, clock, exportVars>>

CallSetTimeRange ==
    /\ pc = "idle" /\ calls < MaxCalls
    /\ \E days \in IntInputs, hours \in IntInputs, now \in NowPairs(clock) :
          LET r == set_time_range(g, days, hours, now[1], now[2])
          IN  /\ Called("set_time_range", [days |-> days, hours |-> hours], r, "None")
              /\ clock' = IF r.err = "none" THEN now[2] ELSE clock
    /\ UNCHANGED <<lastWindowOk, lastAggOk, exportVars>>

CallSetWindowPeriod ==
    /\ pc = "idle" /\ calls < MaxCalls
    /\ \E window_period \in WindowInputs :
          LET r == set_window_period(g, window_period)
          IN  /\ Called("set_window_period", window_period, r, "None")
              /\ lastWindowOk' = IF r.err = "none" THEN window_period ELSE lastWindowOk
    /\ UNCHANGED <<lastAggOk, clock, exportVars>>

CallSetAggregationType ==
    /\ pc = "idle" /\ calls < MaxCalls
    /\ \E aggregation_type \in AggregationInputs :
          LET r == set_aggregation_type(g, aggregation_type)
          IN  /\ Called("set_aggregation_type", aggregation_type, r, "None")
              /\ lastAggOk' = IF r.err = "none" THEN aggregation_type ELSE lastAggOk
    /\ UNCHANGED <<lastWindowOk, clock, exportVars>>

CallGenerate ==
    /\ pc = "idle" /\ calls < MaxCalls
    /\ Called("generate", "None", generate(g), generate(g).ret)
    /\ UNCHANGED <<lastWindowOk, lastAggOk, clock, exportVars>>

Next ==
    \/ CallAddFilterConditions
    \/ CallSetTimeRange
    \/ CallSetWindowPeriod
    \/ CallSetAggregationType
    \/ CallGenerate

Spec == Init /\ [][Next]_vars

-----------------------------------------------------------------------------
(* The export workflow: module level code, query_generator, export_csv, __main__ *)

ConfigStrings == { <<>>, <<"1">>, <<"-", "1">>, <<"x">> }

ConfigInputs ==
    [ loaded : {TRUE},
      time_range_days : ConfigStrings,
      time_range_hours : ConfigStrings,
      window_period : WindowInputs,
      aggregation_type : AggregationInputs,
      filtered_fields : ConditionInputs ]

\* my_aggregation_type: anything but 'raw' is 'windowed'
my_aggregation_type(config) ==
    IF config.aggregation_type = "raw" THEN "raw" ELSE "windowed"

\* variant: the exception is swallowed and the workflow goes on
AfterCall_swallowed(err, next) == next

\* where control goes after a call inside the try block of __main__
AfterCall(err, next) == IF err # "none" THEN "except" ELSE next

InitExport ==
    /\ g = NoInstance
    /\ clock = 0
    /\ lastCall = [op |-> "none", arg |-> "None", err |-> "none", ret |-> "None"]
    /\ calls = 0
    /\ repeated = FALSE
    /\ lastWindowOk = "none"
    /\ lastAggOk = "none"
    /\ pc = "config"
    /\ cfg \in ConfigInputs
    /\ completed = <<>>
    /\ raised = <<>>
    /\ executorCalled = FALSE
    /\ fileOpened = FALSE
    /\ rowsWritten = 0
    /\ log = <<>>

\* the bookkeeping of a builder call made by query_generator
Ran(op, arg, r, ret, next) ==
    /\ Called(op, arg, r, ret)
    /\ completed' = IF r.err = "none" THEN Append(completed, op) ELSE completed
    /\ raised' = IF r.err = "none" THEN raised ELSE Append(raised, op)
    /\ pc' = AfterCall(r.err, next)

\* the check that time_range_days and time_range_hours are not empty
CheckConfig ==
    /\ pc = "config"
    /\ IF cfg.time_range_days = <<>> \/ cfg.time_range_hours = <<>>
       THEN log' = Append(log, "ERROR") /\ pc' = "exit"
       ELSE log' = log /\ pc' = "construct"
    /\ UNCHANGED <<harnessVars, cfg, completed, raised, executorCalled, fileOpened, rowsWritten>>

Construct ==
    /\ pc = "construct"
    /\ \E now \in NowPairs(clock) :
          /\ g' = QueryGenerator(Bucket, now[1], now[2])
          /\ clock' = now[2]
    /\ lastCall' = [op |-> "__init__", arg |-> Bucket, err |-> "none", ret |-> "None"]
    /\ pc' = "set_time_range"
    /\ UNCHANGED <<calls, repeated, lastWindowOk, lastAggOk,
                   cfg, completed, raised, executorCalled, fileOpened, rowsWritten, log>>

RunSetTimeRange ==
    /\ pc = "set_time_range"
    /\ \E now \in NowPairs(clock) :
          LET days == PyStr(cfg.time_range_days)
              hours == PyStr(cfg.time_range_hours)
              r == set_time_range(g, days, hours, now[1], now[2])
          IN  /\ Ran("set_time_range", [days |-> days, hours |-> hours], r, "None",
                     "set_aggregation_type")
              /\ clock' = IF r.err = "none" THEN now[2] ELSE clock
    /\ UNCHANGED <<lastWindowOk, lastAggOk, cfg, executorCalled, fileOpened, rowsWritten, log>>

RunSetAggregationType ==
    /\ pc = "set_aggregation_type"
    /\ LET r == set_aggregation_type(g, my_aggregation_type(cfg))
       IN  /\ Ran("set_aggregation_type", my_aggregation_type(cfg), r, "None",
                  "set_window_period")
           /\ lastAggOk' = IF r.err = "none" THEN my_aggregation_type(cfg) ELSE lastAggOk
    /\ UNCHANGED <<lastWindowOk, clock, cfg, executorCalled, fileOpened, rowsWritten, log>>

RunSetWindowPeriod ==
    /\ pc = "set_window_period"
    /\ LET r == set_window_period(g, cfg.window_period)
       IN  /\ Ran("set_window_period", cfg.window_period, r, "None", "add_filter_conditions")
           /\ lastWindowOk' = IF r.err = "none" THEN cfg.window_period ELSE lastWindowOk
    /\ UNCHANGED <<lastAggOk, clock, cfg, executorCalled, fileOpened, rowsWritten, log>>

RunAddFilterConditions ==
    /\ pc = "add_filter_conditions"
    /\ Ran("add_filter_conditions", cfg.filtered_fields,
           add_filter_conditions(g, cfg.filtered_fields), "None", "generate")
    /\ UNCHANGED <<lastWindowOk, lastAggOk, clock, cfg, executorCalled, fileOpened,
                   rowsWritten, log>>

RunGenerate ==
    /\ pc = "generate"
    /\ Ran("generate", "None", generate(g), generate(g).ret, "query_csv")
    /\ UNCHANGED <<lastWindowOk, lastAggOk, clock, cfg, executorCalled, fileOpened,
                   rowsWritten, log>>

\* query_api.query_csv: the executor returns a lazy row sequence or raises
QueryCsv ==
    /\ pc = "query_csv"
    /\ executorCalled' = TRUE
    /\ \E err \in {"none", "ApiException"} :
          /\ pc' = AfterCall(err, "open")
          /\ raised' = IF err = "none" THEN raised ELSE Append(raised, "query_csv")
    /\ UNCHANGED <<harnessVars, cfg, completed, fileOpened, rowsWritten, log>>

OpenFile ==
    /\ pc = "open"
    /\ \E err \in {"none", "OSError"} :
          /\ fileOpened' = (err = "none")
          /\ pc' = AfterCall(err, "write")
          /\ raised' = IF err = "none" THEN raised ELSE Append(raised, "open")
    /\ UNCHANGED <<harnessVars, cfg, completed, executorCalled, rowsWritten, log>>

\* the for loop over csv_result: a row is written, the rows end, or reading one raises
WriteRows ==
    /\ pc = "write"
    /\ \/ /\ rowsWritten < MaxRows
          /\ rowsWritten' = rowsWritten + 1
          /\ UNCHANGED <<pc, raised>>
       \/ /\ pc' = "log_info"
          /\ UNCHANGED <<rowsWritten, raised>>
       \/ /\ pc' = AfterCall("ApiException", "write")
          /\ raised' = Append(raised, "writerow")
          /\ UNCHANGED rowsWritten
    /\ UNCHANGED <<harnessVars, cfg, completed, executorCalled, fileOpened, log>>

LogInfo ==
    /\ pc = "log_info"
    /\ log' = Append(log, "INFO")
    /\ pc' = "done"
    /\ UNCHANGED <<harnessVars, cfg, completed, raised, executorCalled, fileOpened, rowsWritten>>

\* except Exception as e: logging.error(...)
LogError ==
    /\ pc = "except"
    /\ log' = Append(log, "ERROR")
    /\ pc' = "done"
    /\ UNCHANGED <<harnessVars, cfg, completed, raised, executorCalled, fileOpened, rowsWritten>>

NextExport ==
    \/ CheckConfig
    \/ Construct
    \/ RunSetTimeRange
    \/ RunSetAggregationType
    \/ RunSetWindowPeriod
    \/ RunAddFilterConditions
    \/ RunGenerate
    \/ QueryCsv
    \/ OpenFile
    \/ WriteRows
    \/ LogInfo
    \/ LogError

SpecExport == InitExport /\ [][NextExport]_vars

-----------------------------------------------------------------------------
(* Properties *)

ConfigOps == {"add_filter_conditions", "set_time_range", "set_window_period",
              "set_aggregation_type"}

\* this step is a call of method op
IsCall(op) == calls' = calls + 1 /\ lastCall'.op = op

\* index of the first double quote of s at or after i; 0 if there is none
NextQuote(s, i) ==
    IF \E j \in i..Len(s) : s[j] = Q
    THEN CHOOSE j \in i..Len(s) : s[j] = Q /\ \A k \in i..(j - 1) : s[k] # Q
    ELSE 0

\* the filter clauses read off text s from position i on: a clause starts at each
\* filter( opener and its field and value end at the next double quote
RECURSIVE FilterClausesFrom(_, _)
FilterClausesFrom(s, i) ==
    IF i > Len(s) THEN <<>>
    ELSE IF s[i] # FilterOpen THEN FilterClausesFrom(s, i + 1)
    ELSE LET f == NextQuote(s, i + 2)
             v == IF f = 0 THEN 0 ELSE NextQuote(s, f + 5)
         IN  IF /\ i + 1 <= Len(s) /\ s[i + 1] = Q
                /\ f > 0 /\ f + 4 <= Len(s)
                /\ s[f + 1] = FilterMid /\ s[f + 3] = " " /\ s[f + 4] = Q
                /\ v > 0 /\ v + 1 <= Len(s) /\ s[v + 1] = FilterEnd
             THEN << [field |-> SubSeq(s, i + 2, f - 1),
                      operator |-> s[f + 2],
                      value |-> SubSeq(s, f + 5, v - 1)] >> \o FilterClausesFrom(s, v + 2)
             ELSE << [field |-> <<>>, operator |-> "malformed", value |-> <<>>] >>
                  \o FilterClausesFrom(s, i + 1)

FilterClausesOf(query) == FilterClausesFrom(query, 1)

\* a condition the description of add_filter_conditions calls valid
ValidCondition(c) ==
    /\ c.type = "dict"
    /\ {"field", "operator", "value"} \subseteq DOMAIN c.d
    /\ c.d.operator \in {"==", "!=", "<", ">", "<=", ">="}

\* index of the first invalid condition of cs; 0 if all are valid
FirstInvalid(cs) ==
    IF \A i \in 1..Len(cs) : ValidCondition(cs[i]) THEN 0
    ELSE CHOOSE k \in 1..Len(cs) :
            ~ValidCondition(cs[k]) /\ \A i \in 1..(k - 1) : ValidCondition(cs[i])

\* the clauses of the conditions cs, one after the other
RECURSIVE Rendered(_)
Rendered(cs) ==
    IF cs = <<>> THEN <<>>
    ELSE <<FilterOpen, Q>> \o Head(cs).d.field \o <<Q, FilterMid, Head(cs).d.operator, " ", Q>>
         \o Head(cs).d.value \o <<Q, FilterEnd>> \o Rendered(Tail(cs))

\* C1: after add_filter_conditions with a list of valid conditions on a fresh
\* instance, the template of generate() holds exactly one filter clause per
\* condition, in input order, the i-th with the field, operator and value of the
\* i-th condition.
C1_OneClausePerCondition ==
    ( /\ calls = 1
      /\ lastCall.op = "add_filter_conditions"
      /\ FirstInvalid(AsList(lastCall.arg)) = 0 )
    => LET cs == AsList(lastCall.arg)
           found == FilterClausesOf(generate(g).ret.query)
       IN  /\ lastCall.err = "none"
           /\ Len(found) = Len(cs)
           /\ \A i \in 1..Len(cs) : found[i] = cs[i].d

\* the days and hours of a set_time_range call coerce to integers
IntegerArgs(arg) == int(arg.days).err = "none" /\ int(arg.hours).err = "none"

\* C2: after set_time_range(days, hours) with days >= 0 and hours >= 0 returns,
\* timeRangeStop - timeRangeStart is exactly days*24h + hours, whatever the clock
\* does during the call.
C2_ExactSpan ==
    ( /\ lastCall.op = "set_time_range"
      /\ IntegerArgs(lastCall.arg)
      /\ int(lastCall.arg.days).v >= 0
      /\ int(lastCall.arg.hours).v >= 0 )
    => /\ lastCall.err = "none"
       /\ g.params.timeRangeStop.t - g.params.timeRangeStart.t
            = int(lastCall.arg.days).v * 24 * 3600 + int(lastCall.arg.hours).v * 3600

NegativeArgs(arg) ==
    /\ IntegerArgs(arg)
    /\ (int(arg.days).v < 0 \/ int(arg.hours).v < 0)

\* C3: set_time_range(days, hours) with days < 0 or hours < 0 raises the range
\* validation error and leaves the parameter map, the filter clauses and the
\* aggregation mode as they were.
C3_NegativeRangeRejected ==
    [][ (IsCall("set_time_range") /\ NegativeArgs(lastCall'.arg))
        => (lastCall'.err = "ValueError" /\ g' = g) ]_vars

C3_Witness ==
    /\ lastCall.op = "set_time_range"
    /\ NegativeArgs(lastCall.arg)
    /\ lastCall.err = "ValueError"
    /\ g.params.windowPeriod.type = "timedelta"

\* a window period whose last character is no unit or whose prefix holds a non-digit
MalformedWindow(w) ==
    \/ Len(w) = 0
    \/ w[Len(w)] \notin {"s", "m", "h", "d"}
    \/ \E i \in 1..(Len(w) - 1) : w[i] \notin Digits

\* C4: set_window_period(s) fails with the window validation error for every
\* string s, of any length, whose last character is not one of s, m, h, d or
\* whose prefix is not all digits; no other kind of failure occurs.
C4_MalformedWindowRejected ==
    (lastCall.op = "set_window_period" /\ MalformedWindow(lastCall.arg))
    => lastCall.err = "ValueError"

\* the duration, in seconds, an accepted window period string stands for
WindowSeconds(w) ==
    DigitsToNat(SubSeq(w, 1, Len(w) - 1)) *
        ( CASE w[Len(w)] = "s" -> 1
            [] w[Len(w)] = "m" -> 60
            [] w[Len(w)] = "h" -> 3600
            [] w[Len(w)] = "d" -> 86400 )

\* C5: in every state of an instance, windowPeriod is a duration in seconds and
\* not a string: 86400 s until a set_window_period call succeeds, then n times
\* the multiplier of the most recently accepted string.
C5_WindowPeriodIsDuration ==
    /\ g.params.windowPeriod.type = "timedelta"
    /\ g.params.windowPeriod.seconds =
         IF lastWindowOk = "none" THEN 86400 ELSE WindowSeconds(lastWindowOk)

\* the second half of C5 alone: once a set_window_period call has succeeded,
\* windowPeriod is a duration of n times the multiplier of the last accepted string
C5_AfterAcceptedWindow ==
    lastWindowOk # "none" =>
        /\ g.params.windowPeriod.type = "timedelta"
        /\ g.params.windowPeriod.seconds = WindowSeconds(lastWindowOk)

\* the text of a rendered query between the filter block and the closing text
AggregationSegment(query, self) ==
    SubSeq(query, Len(self.filter_conditions) + 3, Len(query) - 1)

\* C6: the aggregation segment of generate()'s template is empty when the last
\* successful set_aggregation_type call passed "raw", and the
\* aggregateWindow/mean/yield clause over windowPeriod when it passed "windowed"
\* or none was made, whatever other calls came in between.
C6_AggregationFollowsMode ==
    LET segment == AggregationSegment(generate(g).ret.query, g)
    IN  /\ lastAggOk = "raw" => segment = <<>>
        /\ lastAggOk \in {"none", "windowed"} =>
             segment = << "|> aggregateWindow(every: windowPeriod, fn: mean, createEmpty: false)\n|> yield(name: ",
                          Q, "mean", Q, ")" >>
        /\ lastCall.op = "generate" => lastCall.ret.query = generate(g).ret.query

C6_Witness ==
    /\ lastAggOk = "raw"
    /\ lastCall.op = "add_filter_conditions"
    /\ g.filter_conditions # <<>>
    /\ AggregationSegment(generate(g).ret.query, g) = <<>>

\* C7 as stated: each of the four configuration methods is idempotent; a second
\* call in a row with the same valid argument leaves the instance as the first
\* call left it.
C7_EverySetterIdempotent ==
    [][ (repeated' /\ calls' = calls + 1 /\ lastCall'.op \in ConfigOps) => g' = g ]_vars

\* C7 amended: a second call in a row with the same valid argument leaves the
\* instance, and the output of generate(), unchanged for set_window_period and
\* set_aggregation_type; add_filter_conditions appends the clauses of its
\* conditions once more; set_time_range changes nothing but timeRangeStart and
\* timeRangeStop, which follow the clock.
C7_RepeatedCalls ==
    [][ (repeated' /\ calls' = calls + 1) =>
          /\ lastCall'.op \in {"set_window_period", "set_aggregation_type"} =>
               g' = g /\ generate(g').ret = generate(g).ret
          /\ lastCall'.op = "add_filter_conditions" =>
               g' = [g EXCEPT !.filter_conditions = @ \o Rendered(AsList(lastCall'.arg))]
          /\ lastCall'.op = "set_time_range" =>
               /\ g'.filter_conditions = g.filter_conditions
               /\ g'.aggregation_type = g.aggregation_type
               /\ g'.params.windowPeriod = g.params.windowPeriod
               /\ g'.params.stringParam = g.params.stringParam ]_vars

C7_Witness ==
    /\ repeated
    /\ lastCall.op = "add_filter_conditions"
    /\ AsList(lastCall.arg) # <<>>
    /\ g.filter_conditions = Rendered(AsList(lastCall.arg)) \o Rendered(AsList(lastCall.arg))

\* C8: generate() never fails, changes no field of the instance, and two calls
\* with no configuration call between them return the same template and
\* parameter map.
C8_GenerateIsPureRead ==
    [][ IsCall("generate") =>
          /\ lastCall'.err = "none"
          /\ g' = g
          /\ lastCall.op = "generate" => lastCall'.ret = lastCall.ret ]_vars

C8_Witness ==
    /\ lastCall.op = "generate"
    /\ repeated
    /\ lastCall.ret = generate(g).ret

\* C9: when the k-th condition is the first invalid one, add_filter_conditions
\* raises the validation error after appending exactly the clauses of the k-1
\* conditions before it, in order, and leaves the parameter map and the
\* aggregation mode unchanged.
C9_PartialAppendOnFailure ==
    [][ (IsCall("add_filter_conditions") /\ FirstInvalid(AsList(lastCall'.arg)) > 0) =>
          LET cs == AsList(lastCall'.arg)
              k == FirstInvalid(cs)
          IN  /\ lastCall'.err = "ValueError"
              /\ g'.filter_conditions = g.filter_conditions \o Rendered(SubSeq(cs, 1, k - 1))
              /\ g'.params = g.params
              /\ g'.aggregation_type = g.aggregation_type ]_vars

C9_Witness ==
    /\ lastCall.op = "add_filter_conditions"
    /\ lastCall.err = "ValueError"
    /\ FirstInvalid(AsList(lastCall.arg)) = 2
    /\ g.filter_conditions = Rendered(SubSeq(AsList(lastCall.arg), 1, 1))

\* a configuration call of this export run raised
ConfigCallRaised == \E i \in 1..Len(raised) : raised[i] \in ConfigOps

\* C10: in the export workflow, once a configuration call raises, the executor is
\* never called, no CSV file is opened or written, and the failure is logged; the
\* executor is called only after the four configuration calls and generate()
\* returned, in the order of query_generator.
C10_FailedConfigurationAbortsExport ==
    /\ ConfigCallRaised =>
         /\ ~executorCalled
         /\ ~fileOpened
         /\ rowsWritten = 0
         /\ pc \in {"except", "done"}
         /\ pc = "done" => log = <<"ERROR">>
    /\ executorCalled =>
         completed = <<"set_time_range", "set_aggregation_type", "set_window_period",
                       "add_filter_conditions", "generate">>

C10_Witness ==
    /\ ConfigCallRaised
    /\ raised = <<"add_filter_conditions">>
    /\ pc = "done"
    /\ log = <<"ERROR">>
    /\ ~executorCalled

====
